---- MODULE Spec2Model ----
(***************************************************************************)
(* Circuit breaker of src/src/circuitBreaker.ts.  The file holds two       *)
(* breakers: the state-pattern CircuitBreaker (lines 28-240, handlers      *)
(* ClosedState / OpenState / HalfOpenState) and the enum CircuitBreaker    *)
(* (lines 267-360, one CircuitBreakerState field).  Both are modelled and  *)
(* driven in lockstep by the same calls, clock and service outcomes.       *)
(*                                                                         *)
(* A call runs synchronously up to `await service()` and, once the service *)
(* settles, synchronously to its end; so a call is two atomic steps,       *)
(* CallService (dispatch) and Settle, and calls interleave only between    *)
(* them.  Date.now() is the variable `now`; it advances only by Tick, so   *)
(* all reads inside one synchronous step return the same value.            *)
(***************************************************************************)
EXTENDS Integers, Sequences, FiniteSets

\* ---- bounds of the model ------------------------------------------------
MaxThreshold == 2
MaxTimeout == 2
MaxProbes == 2
MaxCalls == 4
MaxTime == 3
MaxInFlight == 2

\* lastFailureTime: number | null
Null == -1

VARIABLES
    config,                 \* CircuitBreakerConfig (readonly)
    now,                    \* Date.now()
    issued,                 \* number of callService invocations made so far
    \* state-pattern breaker
    state,                  \* "ClosedState" | "OpenState" | "HalfOpenState"
    failureCount,
    lastFailureTime,
    halfOpenRequestCount,
    responseTimes,
    pending,                \* calls suspended at `await service()`
    returned,               \* how the most recently finished call ended
    \* enum breaker
    enumState,              \* "CLOSED" | "OPEN" | "HALF_OPEN"
    enumFailureCount,
    enumLastFailureTime,
    enumResponseTimes,
    enumPending,
    enumReturned,           \* as `returned`; handler: this.state when it ended
    \* history (state-pattern breaker): the current run of consecutive failed
    \* executions of the service, and the ids of the probes admitted since
    \* the latest entry into HalfOpen
    consecutiveFailures,
    episodeProbes

envVars == <<config, now, issued>>
cbVars == <<state, failureCount, lastFailureTime, halfOpenRequestCount,
            responseTimes, pending, returned, consecutiveFailures,
            episodeProbes>>
enumVars == <<enumState, enumFailureCount, enumLastFailureTime,
              enumResponseTimes, enumPending, enumReturned>>
vars == <<envVars, cbVars, enumVars>>

Configs ==
    [failureThreshold : 1..MaxThreshold,
     timeout : 1..MaxTimeout,
     maxHalfOpenRequests : 1..MaxProbes]

\* `lastFailureTime && ...`: null and 0 are falsy
Truthy(t) == t # Null /\ t # 0

\* `returned`: id of the call, what its caller got ("Result", "ServiceError",
\* "CircuitOpen", "ProbeLimit"), how often it invoked the service, how the
\* service ended ("ok", "error", "none"), and the handler that ended it
NoCall ==
    [id |-> 0, outcome |-> "none", invoked |-> 0, service |-> "none",
     handler |-> "none"]

\* ---- state-pattern breaker: the context ---------------------------------
Context ==
    [state |-> state,
     failureCount |-> failureCount,
     lastFailureTime |-> lastFailureTime,
     halfOpenRequestCount |-> halfOpenRequestCount,
     responseTimes |-> responseTimes]

setState(ctx, s) == [ctx EXCEPT !.state = s]

recordFailure(ctx, t) ==
    [ctx EXCEPT !.failureCount = @ + 1, !.lastFailureTime = t]

\* reset() clearing the response times as well
reset_Truncating(ctx) ==
    [ctx EXCEPT !.failureCount = 0,
                !.lastFailureTime = Null,
                !.halfOpenRequestCount = 0,
                !.responseTimes = <<>>]

reset(ctx) ==
    [ctx EXCEPT !.failureCount = 0,
                !.lastFailureTime = Null,
                !.halfOpenRequestCount = 0]

recordResponseTime(ctx, time) ==
    [ctx EXCEPT !.responseTimes = Append(@, time)]

incrementHalfOpenRequest(ctx) ==
    [ctx EXCEPT !.halfOpenRequestCount = @ + 1]

\* ---- state-pattern breaker: the synchronous part of callService ---------
\* A dispatch ends either suspended at `await service()` (outcome
\* "awaiting", the handler object and its startTime kept) or by throwing.
Suspended(ctx, h, t) ==
    [ctx |-> ctx, outcome |-> "awaiting", handler |-> h,
     startTime |-> t, invoked |-> 1]

Thrown(ctx, h, err) ==
    [ctx |-> ctx, outcome |-> err, handler |-> h,
     startTime |-> 0, invoked |-> 0]

ClosedCallService(ctx, t) == Suspended(ctx, "ClosedState", t)

\* HalfOpenCallService admitting one probe too many
HalfOpenCallService_OneMore(ctx, t) ==
    IF ctx.halfOpenRequestCount > config.maxHalfOpenRequests
    THEN Thrown(setState(ctx, "OpenState"), "HalfOpenState", "ProbeLimit")
    ELSE Suspended(incrementHalfOpenRequest(ctx), "HalfOpenState", t)

HalfOpenCallService(ctx, t) ==
    IF ctx.halfOpenRequestCount >= config.maxHalfOpenRequests
    THEN Thrown(setState(ctx, "OpenState"), "HalfOpenState", "ProbeLimit")
    ELSE Suspended(incrementHalfOpenRequest(ctx), "HalfOpenState", t)

\* OpenCallService admitting a probe one time unit before the cooldown ends
OpenCallService_Early(ctx, t) ==
    IF Truthy(ctx.lastFailureTime)
       /\ t - ctx.lastFailureTime + 1 >= config.timeout
    THEN HalfOpenCallService(setState(ctx, "HalfOpenState"), t)
    ELSE Thrown(recordResponseTime(ctx, t - t), "OpenState", "CircuitOpen")

\* OpenCallService counting a rejected call as a failure
OpenCallService_CountsRejection(ctx, t) ==
    IF Truthy(ctx.lastFailureTime)
       /\ t - ctx.lastFailureTime >= config.timeout
    THEN HalfOpenCallService(setState(ctx, "HalfOpenState"), t)
    ELSE Thrown(recordFailure(recordResponseTime(ctx, t - t), t),
                "OpenState", "CircuitOpen")

\* context.callService(service) after setState(new HalfOpenState()) is
\* HalfOpenState.callService
OpenCallService(ctx, t) ==
    IF Truthy(ctx.lastFailureTime)
       /\ t - ctx.lastFailureTime >= config.timeout
    THEN HalfOpenCallService(setState(ctx, "HalfOpenState"), t)
    ELSE Thrown(recordResponseTime(ctx, t - t), "OpenState", "CircuitOpen")

Dispatch(ctx, t) ==
    CASE ctx.state = "ClosedState" -> ClosedCallService(ctx, t)
      [] ctx.state = "OpenState" -> OpenCallService(ctx, t)
      [] ctx.state = "HalfOpenState" -> HalfOpenCallService(ctx, t)

\* ---- state-pattern breaker: after the service settled -------------------
ClosedOnSuccess(ctx) == reset(ctx)

\* ClosedOnFailure tripping one failure late
ClosedOnFailure_OffByOne(ctx, t) ==
    LET c == recordFailure(ctx, t)
    IN  IF c.failureCount > config.failureThreshold
        THEN setState(c, "OpenState")
        ELSE c

ClosedOnFailure(ctx, t) ==
    LET c == recordFailure(ctx, t)
    IN  IF c.failureCount >= config.failureThreshold
        THEN setState(c, "OpenState")
        ELSE c

\* HalfOpenOnSuccess closing the breaker without reset()
HalfOpenOnSuccess_NoReset(ctx) == setState(ctx, "ClosedState")

HalfOpenOnSuccess(ctx) == reset(setState(ctx, "ClosedState"))

\* HalfOpenOnFailure without setState(new OpenState())
HalfOpenOnFailure_NoTransition(ctx) == ctx

HalfOpenOnFailure(ctx) == setState(ctx, "OpenState")

\* the continuation of the handler `p.handler` (the `this` of the call)
Continue(ctx, p, ok, t) ==
    LET c == recordResponseTime(ctx, t - p.startTime)
    IN  CASE p.handler = "ClosedState" ->
               IF ok THEN ClosedOnSuccess(c) ELSE ClosedOnFailure(c, t)
          [] p.handler = "HalfOpenState" ->
               IF ok THEN HalfOpenOnSuccess(c) ELSE HalfOpenOnFailure(c)

\* a catch block that does not rethrow
Outcome_Swallowed(ok) == "Result"

\* what the caller gets from an executed call
Outcome(ok) == IF ok THEN "Result" ELSE "ServiceError"

SetContext(ctx) ==
    /\ state' = ctx.state
    /\ failureCount' = ctx.failureCount
    /\ lastFailureTime' = ctx.lastFailureTime
    /\ halfOpenRequestCount' = ctx.halfOpenRequestCount
    /\ responseTimes' = ctx.responseTimes

\* ---- enum breaker -------------------------------------------------------
EnumContext ==
    [state |-> enumState,
     failureCount |-> enumFailureCount,
     lastFailureTime |-> enumLastFailureTime,
     responseTimes |-> enumResponseTimes]

EnumReset(ctx) ==
    [ctx EXCEPT !.failureCount = 0, !.lastFailureTime = Null]

EnumDispatch(ctx, t) ==
    IF ctx.state = "OPEN"
    THEN IF Truthy(ctx.lastFailureTime)
            /\ t - ctx.lastFailureTime >= config.timeout
         THEN [ctx |-> [ctx EXCEPT !.state = "HALF_OPEN"],
               outcome |-> "awaiting", startTime |-> t, invoked |-> 1]
         ELSE [ctx |-> [ctx EXCEPT !.responseTimes = Append(@, t - t)],
               outcome |-> "CircuitOpen", startTime |-> 0, invoked |-> 0]
    ELSE [ctx |-> ctx, outcome |-> "awaiting", startTime |-> t,
          invoked |-> 1]

EnumOnSuccess(ctx) ==
    IF ctx.state = "HALF_OPEN"
    THEN EnumReset([ctx EXCEPT !.state = "CLOSED"])
    ELSE IF ctx.state = "CLOSED" THEN EnumReset(ctx) ELSE ctx

\* the enum onFailure tripping one failure late
EnumOnFailure_OffByOne(ctx, t) ==
    LET c == [ctx EXCEPT !.failureCount = @ + 1, !.lastFailureTime = t]
    IN  IF c.state = "CLOSED" /\ c.failureCount > config.failureThreshold
        THEN [c EXCEPT !.state = "OPEN"]
        ELSE IF c.state = "HALF_OPEN"
             THEN [c EXCEPT !.state = "OPEN"]
             ELSE c

EnumOnFailure(ctx, t) ==
    LET c == [ctx EXCEPT !.failureCount = @ + 1, !.lastFailureTime = t]
    IN  IF c.state = "CLOSED" /\ c.failureCount >= config.failureThreshold
        THEN [c EXCEPT !.state = "OPEN"]
        ELSE IF c.state = "HALF_OPEN"
             THEN [c EXCEPT !.state = "OPEN"]
             ELSE c

EnumContinue(ctx, p, ok, t) ==
    LET c == [ctx EXCEPT !.responseTimes = Append(@, t - p.startTime)]
    IN  IF ok THEN EnumOnSuccess(c) ELSE EnumOnFailure(c, t)

SetEnumContext(ctx) ==
    /\ enumState' = ctx.state
    /\ enumFailureCount' = ctx.failureCount
    /\ enumLastFailureTime' = ctx.lastFailureTime
    /\ enumResponseTimes' = ctx.responseTimes

\* ---- the state machine --------------------------------------------------
Init ==
    /\ config \in Configs
    /\ now = 1
    /\ issued = 0
    /\ state = "ClosedState"
    /\ failureCount = 0
    /\ lastFailureTime = Null
    /\ halfOpenRequestCount = 0
    /\ responseTimes = <<>>
    /\ pending = {}
    /\ returned = NoCall
    /\ enumState = "CLOSED"
    /\ enumFailureCount = 0
    /\ enumLastFailureTime = Null
    /\ enumResponseTimes = <<>>
    /\ enumPending = {}
    /\ enumReturned = NoCall
    /\ consecutiveFailures = 0
    /\ episodeProbes = {}

InFlight == {p.id : p \in pending} \cup {p.id : p \in enumPending}

\* the clock advances
Tick ==
    /\ now < MaxTime
    /\ now' = now + 1
    /\ UNCHANGED <<config, issued, cbVars, enumVars>>

\* a caller invokes callService on both breakers; at most `limit` calls
\* are in flight
CallService(limit) ==
    /\ issued < MaxCalls
    /\ Cardinality(InFlight) < limit
    /\ issued' = issued + 1
    /\ LET d == Dispatch(Context, now)
           e == EnumDispatch(EnumContext, now)
       IN  /\ SetContext(d.ctx)
           /\ IF d.outcome = "awaiting"
              THEN /\ pending' = pending \cup
                        {[id |-> issued', handler |-> d.handler,
                          startTime |-> d.startTime, invoked |-> d.invoked]}
                   /\ UNCHANGED returned
              ELSE /\ returned' = [id |-> issued', outcome |-> d.outcome,
                                   invoked |-> d.invoked, service |-> "none",
                                   handler |-> d.handler]
                   /\ UNCHANGED pending
           /\ episodeProbes' =
                 LET admitted == IF d.outcome = "awaiting"
                                 THEN {issued'} ELSE {}
                 IN  CASE d.handler # "HalfOpenState" -> episodeProbes
                       [] state = "OpenState" -> admitted
                       [] OTHER -> episodeProbes \cup admitted
           /\ SetEnumContext(e.ctx)
           /\ IF e.outcome = "awaiting"
              THEN /\ enumPending' = enumPending \cup
                        {[id |-> issued', startTime |-> e.startTime,
                          invoked |-> e.invoked]}
                   /\ UNCHANGED enumReturned
              ELSE /\ enumReturned' = [id |-> issued', outcome |-> e.outcome,
                                       invoked |-> e.invoked,
                                       service |-> "none",
                                       handler |-> "OPEN"]
                   /\ UNCHANGED enumPending
    /\ UNCHANGED <<config, now, consecutiveFailures>>

\* the service of call `id` settles (ok: resolved, otherwise rejected) and
\* the call's continuation runs, in each breaker that executed it
Settle(id, ok) ==
    /\ id \in InFlight
    /\ IF \E p \in pending : p.id = id
       THEN LET p == CHOOSE q \in pending : q.id = id
            IN  /\ SetContext(Continue(Context, p, ok, now))
                /\ pending' = pending \ {p}
                /\ returned' = [id |-> id, outcome |-> Outcome(ok),
                                invoked |-> p.invoked,
                                service |-> IF ok THEN "ok" ELSE "error",
                                handler |-> p.handler]
                /\ consecutiveFailures' =
                       IF ok THEN 0 ELSE consecutiveFailures + 1
                /\ UNCHANGED episodeProbes
       ELSE UNCHANGED cbVars
    /\ IF \E p \in enumPending : p.id = id
       THEN LET p == CHOOSE q \in enumPending : q.id = id
            IN  /\ SetEnumContext(EnumContinue(EnumContext, p, ok, now))
                /\ enumPending' = enumPending \ {p}
                /\ enumReturned' = [id |-> id, outcome |-> Outcome(ok),
                                    invoked |-> p.invoked,
                                    service |-> IF ok THEN "ok" ELSE "error",
                                    handler |-> enumState]
       ELSE UNCHANGED enumVars
    /\ UNCHANGED envVars

\* a caller invokes the public reset() of the state-pattern breaker
Reset ==
    /\ SetContext(reset(Context))
    /\ UNCHANGED <<pending, returned, consecutiveFailures, episodeProbes>>
    /\ UNCHANGED <<envVars, enumVars>>

Next ==
    \/ Tick
    \/ CallService(MaxInFlight)
    \/ \E id \in 1..MaxCalls, ok \in BOOLEAN : Settle(id, ok)

Spec == Init /\ [][Next]_vars

\* calls issued one at a time: a call is made only when none is in flight
SeqNext ==
    \/ Tick
    \/ CallService(1)
    \/ \E id \in 1..MaxCalls, ok \in BOOLEAN : Settle(id, ok)

SeqSpec == Init /\ [][SeqNext]_vars

\* calls issued one at a time, and reset() called at any moment
ResetNext ==
    \/ SeqNext
    \/ Reset

ResetSpec == Init /\ [][ResetNext]_vars

TypeOK ==
    /\ config \in Configs
    /\ now \in 1..MaxTime
    /\ issued \in 0..MaxCalls
    /\ state \in {"ClosedState", "OpenState", "HalfOpenState"}
    /\ failureCount \in Nat
    /\ lastFailureTime \in {Null} \cup (1..MaxTime)
    /\ halfOpenRequestCount \in Nat
    /\ enumState \in {"CLOSED", "OPEN", "HALF_OPEN"}
\* ---- claims -------------------------------------------------------------

\* C1: calls one at a time, state-pattern breaker: while Closed the failure
\* count equals the current run of consecutive failed executions and is
\* below failureThreshold (so the breaker stays Closed as long as no run of
\* failureThreshold consecutive failures has occurred), and the breaker
\* leaves Closed only to Open, exactly at the step that completes a run of
\* failureThreshold consecutive failures.
C1_TripAtThreshold ==
    /\ [](state = "ClosedState" =>
            /\ failureCount = consecutiveFailures
            /\ consecutiveFailures < config.failureThreshold)
    /\ [][(state = "ClosedState" /\ state' # "ClosedState") =>
            /\ state' = "OpenState"
            /\ consecutiveFailures' = config.failureThreshold
            /\ returned'.outcome = "ServiceError"]_vars

\* the breaker tripped after a run of two failures that followed a success
C1_Witness ==
    /\ state = "OpenState"
    /\ config.failureThreshold = 2
    /\ consecutiveFailures = 2
    /\ issued >= 3
    /\ halfOpenRequestCount = 0
\* a call was made in this step
Called == issued' = issued + 1

\* the call made in this step was rejected with `err` by handler `h`
\* without invoking the service
RejectedNow(h, err) ==
    /\ returned' = [id |-> issued', outcome |-> err, invoked |-> 0,
                    service |-> "none", handler |-> h]
    /\ pending' = pending

\* the call made in this step invoked the service once and awaits it
AdmittedNow(h) ==
    /\ \E p \in pending' :
         /\ p.id = issued'
         /\ p.handler = h
         /\ p.invoked = 1
         /\ pending' = pending \cup {p}
    /\ returned' = returned

\* a call ended in this step
Ended == returned'.id # returned.id
EnumEnded == enumReturned'.id # enumReturned.id

\* C2: a call made while Open before the cooldown has elapsed
\* (now - lastFailureTime < timeout) is rejected with the circuit-open
\* error, does not invoke the service and leaves the breaker Open; in both
\* breakers.
C2_OpenRejects ==
    [][/\ (/\ Called
           /\ state = "OpenState"
           /\ lastFailureTime # Null
           /\ now - lastFailureTime < config.timeout)
          => (RejectedNow("OpenState", "CircuitOpen") /\ state' = "OpenState")
       /\ (/\ Called
           /\ enumState = "OPEN"
           /\ enumLastFailureTime # Null
           /\ now - enumLastFailureTime < config.timeout)
          => /\ enumReturned' = [id |-> issued', outcome |-> "CircuitOpen",
                                 invoked |-> 0, service |-> "none",
                                 handler |-> "OPEN"]
             /\ enumPending' = enumPending
             /\ enumState' = "OPEN"]_vars

\* a call was just rejected by both breakers during the cooldown
C2_Witness ==
    /\ state = "OpenState"
    /\ returned.id = issued
    /\ returned.outcome = "CircuitOpen"
    /\ lastFailureTime # Null
    /\ now - lastFailureTime < config.timeout
    /\ enumState = "OPEN"
    /\ enumReturned.id = issued
    /\ enumReturned.outcome = "CircuitOpen"

\* C3 (as claimed): calls one at a time, state-pattern breaker: a call made
\* while Open at or after the cooldown has elapsed since lastFailureTime
\* moves the breaker to HalfOpen and invokes the service exactly once.
C3_ProbeAfterCooldown ==
    [][(/\ Called
        /\ state = "OpenState"
        /\ lastFailureTime # Null
        /\ now - lastFailureTime >= config.timeout)
       => (state' = "HalfOpenState" /\ AdmittedNow("HalfOpenState"))]_vars

UnsettledProbes == {p \in pending : p.id \in episodeProbes}

\* C6 (as claimed): concurrent calls, state-pattern breaker: a call made
\* while HalfOpen with maxHalfOpenRequests probes admitted and none of them
\* settled is rejected with the probe-limit error, does not invoke the
\* service, and moves the breaker to Open.
C6_ProbeLimitRejects ==
    [][(/\ Called
        /\ state = "HalfOpenState"
        /\ Cardinality(episodeProbes) = config.maxHalfOpenRequests
        /\ Cardinality(UnsettledProbes) = config.maxHalfOpenRequests)
       => (RejectedNow("HalfOpenState", "ProbeLimit")
           /\ state' = "OpenState")]_vars

\* C7 (as claimed): state-pattern breaker: once all calls have settled,
\* responseTimes holds one sample per callService invocation.
C7_OneSamplePerCall ==
    pending = {} => Len(responseTimes) = issued

\* C8: a call invokes the service at most once; an executed call returns
\* the service's result when it succeeds and fails with the service's
\* error when it fails; the circuit-open and probe-limit rejections occur
\* only on calls that did not invoke the service.  In both breakers.
EndedAsServed(r) ==
    /\ r.invoked \in {0, 1}
    /\ r.service = "ok" => (r.outcome = "Result" /\ r.invoked = 1)
    /\ r.service = "error" => (r.outcome = "ServiceError" /\ r.invoked = 1)
    /\ r.service = "none" => r.invoked = 0
    /\ r.outcome \in {"CircuitOpen", "ProbeLimit"}
         => (r.invoked = 0 /\ r.service = "none")
    /\ r.outcome \in {"Result", "ServiceError"} => r.invoked = 1

C8_NoRetryNoSwallow ==
    /\ \A p \in pending : p.invoked = 1
    /\ \A p \in enumPending : p.invoked = 1
    /\ EndedAsServed(returned)
    /\ EndedAsServed(enumReturned)

\* one breaker has rejected a call without invoking the service, the other
\* has passed on the error of the service it invoked
C8_Witness ==
    /\ returned.outcome = "ProbeLimit"
    /\ returned.invoked = 0
    /\ enumReturned.outcome = "ServiceError"
    /\ enumReturned.invoked = 1

\* C9 (as claimed): driven by the same calls, clock and service outcomes,
\* the two breakers are in the same state, have executed the same calls and
\* have given every call the same outcome.
EnumName(s) ==
    CASE s = "ClosedState" -> "CLOSED"
      [] s = "OpenState" -> "OPEN"
      [] s = "HalfOpenState" -> "HALF_OPEN"

C9_Equivalent ==
    /\ EnumName(state) = enumState
    /\ {p.id : p \in pending} = {p.id : p \in enumPending}
    /\ returned.id = enumReturned.id
    /\ returned.outcome = enumReturned.outcome
    /\ returned.invoked = enumReturned.invoked

\* C10 (as claimed): state-pattern breaker: whenever a call moves the
\* breaker from Open to HalfOpen, the probe count is 0 when the HalfOpen
\* gate is applied.
C10_FreshProbeBudget ==
    [][(/\ Called
        /\ state = "OpenState"
        /\ Truthy(lastFailureTime)
        /\ now - lastFailureTime >= config.timeout)
       => halfOpenRequestCount = 0]_vars

\* C11: state-pattern breaker, any interleaving of concurrent calls:
\* 0 <= halfOpenRequestCount <= maxHalfOpenRequests in every reachable state.
C11_ProbeCountBounded ==
    /\ 0 <= halfOpenRequestCount
    /\ halfOpenRequestCount <= config.maxHalfOpenRequests

\* the counter is at its limit of two with both probes still in flight
C11_Witness ==
    /\ config.maxHalfOpenRequests = 2
    /\ halfOpenRequestCount = 2
    /\ state = "HalfOpenState"
    /\ Cardinality(UnsettledProbes) = 2

\* C12 (as claimed): state-pattern breaker, any interleaving of concurrent
\* calls: while the breaker is Open or HalfOpen lastFailureTime is non-null.
C12_FailureTimeKnown ==
    state \in {"OpenState", "HalfOpenState"} => lastFailureTime # Null

\* C13 (as claimed): state-pattern breaker: every failed execution of the
\* service, in Closed or in HalfOpen, sets lastFailureTime to the current
\* time (so that the cooldown of the next Open episode runs from the failed
\* probe).
C13_FailureTimeRefreshed ==
    [][(Ended /\ returned'.service = "error")
       => lastFailureTime' = now]_vars

\* a step that is neither a tick, nor a call, nor a settling: reset()
ResetCalled ==
    /\ now' = now
    /\ issued' = issued
    /\ pending' = pending
    /\ enumPending' = enumPending

\* C14: state-pattern breaker: reset() sets failureCount to 0,
\* lastFailureTime to null and the probe count to 0 and leaves the state
\* and responseTimes (length and contents) unchanged, from any reachable
\* state.
C14_ResetFrame ==
    [][ResetCalled =>
        /\ failureCount' = 0
        /\ lastFailureTime' = Null
        /\ halfOpenRequestCount' = 0
        /\ state' = state
        /\ responseTimes' = responseTimes]_vars

\* reset() was called on an Open breaker that had recorded samples: with
\* calls one at a time only reset() leaves an Open breaker without
\* lastFailureTime
C14_Witness ==
    /\ state = "OpenState"
    /\ failureCount = 0
    /\ lastFailureTime = Null
    /\ halfOpenRequestCount = 0
    /\ Len(responseTimes) >= 2

\* C15 (as claimed): calls one at a time, state-pattern breaker: the
\* breaker never becomes permanently unable to probe.  A call rejected
\* while Open leaves failureCount, lastFailureTime and the probe count as
\* they are and the state Open, so the service can be invoked again from an
\* Open state only if a call made there late enough is admitted: from every
\* reachable Open state with no call in flight, a call made once the
\* cooldown has elapsed invokes the service.
C15_CanProbeAgain ==
    (state = "OpenState" /\ pending = {})
    => \E t \in now..(MaxTime + MaxTimeout) :
         Dispatch(Context, t).outcome = "awaiting"

\* C16 (as claimed): state-pattern breaker, any interleaving of concurrent
\* calls: the number of executions of the service admitted between an
\* entry into HalfOpen and the next exit from it never exceeds
\* maxHalfOpenRequests.
C16_ProbeBudgetKept ==
    Cardinality(episodeProbes) <= config.maxHalfOpenRequests

\* C17 (as claimed): state-pattern breaker, any interleaving of concurrent
\* calls: the state changes only along Closed -> Open, Open -> HalfOpen,
\* HalfOpen -> Closed and HalfOpen -> Open.
Transitions ==
    {<<"ClosedState", "OpenState">>, <<"OpenState", "HalfOpenState">>,
     <<"HalfOpenState", "ClosedState">>, <<"HalfOpenState", "OpenState">>}

C17_LegalTransitions ==
    [][state' # state => <<state, state'>> \in Transitions]_vars

\* C18: in every reachable state, under any interleaving of concurrent
\* calls, a Closed breaker has failureCount < failureThreshold; in both
\* breakers.
C18_ClosedBelowThreshold ==
    /\ state = "ClosedState" => failureCount < config.failureThreshold
    /\ enumState = "CLOSED" => enumFailureCount < config.failureThreshold

\* both breakers are Closed one failure short of the threshold, four calls
\* having settled
C18_Witness ==
    /\ config.failureThreshold = 2
    /\ state = "ClosedState"
    /\ failureCount = 1
    /\ enumState = "CLOSED"
    /\ enumFailureCount = 1
    /\ Len(responseTimes) >= 4

\* C19: state-pattern breaker: a call rejected while Open because the
\* cooldown has not elapsed leaves state, failureCount, lastFailureTime and
\* the probe count unchanged (and no call in flight added); its only
\* effect is one sample appended to responseTimes.
C19_RejectionFrame ==
    [][(Called /\ returned'.id = issued'
               /\ returned'.outcome = "CircuitOpen")
       => /\ state' = state
          /\ failureCount' = failureCount
          /\ lastFailureTime' = lastFailureTime
          /\ halfOpenRequestCount' = halfOpenRequestCount
          /\ pending' = pending
          /\ Len(responseTimes') = Len(responseTimes) + 1
          /\ SubSeq(responseTimes', 1, Len(responseTimes)) = responseTimes
          /\ responseTimes'[Len(responseTimes')] = 0]_vars

\* a call was rejected during the cooldown by a breaker that had failures
\* and samples recorded
C19_Witness ==
    /\ returned.id = issued
    /\ returned.outcome = "CircuitOpen"
    /\ failureCount = 2
    /\ lastFailureTime # Null
    /\ Len(responseTimes) = 3
====
